---- MODULE Spec2Model ----
(***************************************************************************)
(* East Link Connect API (src/main.py, src/schemas.py): registration,      *)
(* login, bearer-token identity resolution, the follow list, the five      *)
(* entity create handlers and the stories feed, over a document store.     *)
(*                                                                         *)
(* Time is counted in milliseconds.  A string that may be handed to        *)
(* bson.ObjectId is modelled by the record [hex, n, upper]: hex says       *)
(* whether it is 24 hexadecimal digits, n which identifier those digits    *)
(* spell, upper whether the digits are written in upper case.              *)
(*                                                                         *)
(* The handlers are synchronous functions run on a thread pool, so a       *)
(* request is a sequence of steps that interleave with the steps of the    *)
(* other requests in flight.  A step is the store applying one call of     *)
(* the request, or the request reading the clock: a read of the clock is   *)
(* never in one step with a later store call, nor with an earlier one.     *)
(* The store handle db is taken as configured (database.py sets it at      *)
(* import).                                                                *)
(***************************************************************************)
EXTENDS Integers, Sequences, FiniteSets, Bags, TLC

VARIABLES db, nextId, clock, pending, held, req, resp

vars == <<db, nextId, clock, pending, held, req, resp>>

---------------------------------------------------------------------------
(* Bounds of the model *)

\* ObjectIds the store hands out: the total number of documents inserted.
MaxIds == 2

---------------------------------------------------------------------------
(* Program constants *)

JWT_SECRET == "dev-secret"

ACCESS_TOKEN_EXPIRE_MINUTES == 60 * 24 * 7

\* Milliseconds in one second: a JWT NumericDate is a whole number of seconds.
MsPerSecond == 1000

MsPerMinute == 60 * MsPerSecond

Day == 24 * 60 * MsPerMinute

CredentialsDetail == "Could not validate credentials"

Collections == {"user", "business", "product", "attraction", "review", "update"}

\* The workers of the thread pool that handle requests side by side.
Procs == {"w1", "w2"}

---------------------------------------------------------------------------
(* Input alphabets *)

\* Instants the wall clock is observed at.
Instants == {0, 500, 6 * Day, 7 * Day, 7 * Day + 500, 8 * Day}

Emails == {"ama@example.com", "kofi@example.com"}

Passwords == {"pw1", "pw2"}

\* An identifier the store never hands out.
GhostId == MaxIds + 1

HexStr(n, upper) == [hex |-> TRUE, n |-> n, upper |-> upper]

JunkStr == [hex |-> FALSE, n |-> 0, upper |-> FALSE]

---------------------------------------------------------------------------
(* bson.ObjectId and str(ObjectId) *)

\* ObjectId(s) raises InvalidId unless s is 24 hexadecimal digits.
ObjectIdValid(s) == s.hex

ObjectId(s) == s.n

\* str(oid): the 24 lower-case hexadecimal digits.
StrOfObjectId(oid) == HexStr(oid, FALSE)

---------------------------------------------------------------------------
(* Dictionaries *)

Pop(doc, key) == [f \in (DOMAIN doc) \ {key} |-> doc[f]]

Put(doc, key, val) == [f \in (DOMAIN doc) \cup {key} |-> IF f = key THEN val ELSE doc[f]]

serialize_doc(doc) ==
    IF "_id" \in DOMAIN doc
    THEN Put(Pop(doc, "_id"), "id", StrOfObjectId(doc["_id"]))
    ELSE doc

PublicUserLeaky(doc) == serialize_doc(doc)

\* serialize_doc followed by pop("hashed_password", None).
PublicUser(doc) == Pop(serialize_doc(doc), "hashed_password")

---------------------------------------------------------------------------
(* Passwords *)

\* bcrypt.hashpw(password, bcrypt.gensalt()): the hash embeds a salt that no
\* earlier call drew.
hash_password(password, salt) == [plain |-> password, salt |-> salt]

verify_password(password, hashed) == hashed.plain = password

---------------------------------------------------------------------------
(* Tokens *)

Token(wellformed, key, hasSub, sub, exp) ==
    [wellformed |-> wellformed, key |-> key, hasSub |-> hasSub, sub |-> sub, exp |-> exp]

create_access_token_short(sub, now) ==
    Token(TRUE, JWT_SECRET, TRUE, sub,
          (now + ACCESS_TOKEN_EXPIRE_MINUTES * MsPerSecond) \div MsPerSecond)

\* jwt.encode writes exp as whole seconds, dropping the fraction.
create_access_token(sub, now) ==
    Token(TRUE, JWT_SECRET, TRUE, sub,
          (now + ACCESS_TOKEN_EXPIRE_MINUTES * MsPerMinute) \div MsPerSecond)

\* The expiry, a number of seconds, compared with the clock's milliseconds.
jwt_decode_ok_ms(token, now) ==
    /\ token.wellformed
    /\ token.key = JWT_SECRET
    /\ ~(token.exp <= now)

\* jwt.decode(token, JWT_SECRET, algorithms=[HS256]) returns the payload.
jwt_decode_ok(token, now) ==
    /\ token.wellformed
    /\ token.key = JWT_SECRET
    /\ ~(token.exp * MsPerSecond <= now)

---------------------------------------------------------------------------
(* The document store: db[c] is collection c in natural (insertion) order *)

RECURSIVE FindAll(_, _, _)
\* The documents of coll whose field equals value, in natural order.
FindAll(coll, fld, value) ==
    IF coll = <<>> THEN <<>>
    ELSE LET d == Head(coll)
             rest == FindAll(Tail(coll), fld, value)
         IN IF fld \in DOMAIN d /\ d[fld] = value THEN <<d>> \o rest ELSE rest

\* collection.find_one({fld: value}): <<>> for None, else <<doc>>.
find_one(coll, fld, value) ==
    LET hits == FindAll(coll, fld, value)
    IN IF hits = <<>> THEN <<>> ELSE <<Head(hits)>>

\* collection.update_one({"_id": id}, {"$set": {k1: v1, k2: v2}}).
update_one(coll, id, k1, v1, k2, v2) ==
    LET first == CHOOSE i \in 1..(Len(coll) + 1) :
                    /\ (i <= Len(coll) => coll[i]["_id"] = id)
                    /\ \A j \in 1..(i - 1) : coll[j]["_id"] # id
    IN [i \in 1..Len(coll) |->
            IF i = first THEN Put(Put(coll[i], k1, v1), k2, v2) ELSE coll[i]]

\* collection.insert_one(doc): the store assigns the next ObjectId.
insert_one(coll, doc, oid) == Append(coll, Put(doc, "_id", oid))

get_user_by_email_blind(users, email) == <<>>

get_user_by_email(users, email) == find_one(users, "email", email)

---------------------------------------------------------------------------
(* Responses *)

Response(status, detail, user, token, ids, docs) ==
    [status |-> status, detail |-> detail, user |-> user, token |-> token,
     ids |-> ids, docs |-> docs]

Error(status, detail) == Response(status, detail, <<>>, <<>>, <<>>, <<>>)

\* No response yet: the request is still being handled.
InFlight == Error(0, "in flight")

Request(op, token, arg) == [op |-> op, token |-> token, arg |-> arg]

---------------------------------------------------------------------------
(* Identity resolution *)

\* Lines 106-113 before the store is called: jwt.decode reads the clock and
\* checks the token (401 when it does not decode or carries no subject), then
\* ObjectId(user_id) is built outside the try (InvalidId ends the request
\* with 500).  200 stands for: go on to the lookup.
decode_subject(token, now) ==
    IF ~jwt_decode_ok(token, now) \/ ~token.hasSub
    THEN Error(401, CredentialsDetail)
    ELSE IF ~ObjectIdValid(token.sub)
    THEN Error(500, "Internal Server Error")
    ELSE Response(200, "", <<>>, <<>>, <<>>, <<>>)

\* Lines 113-119: the lookup by _id and what is made of its result.
get_current_user(users, token) ==
    LET user == find_one(users, "_id", ObjectId(token.sub))
    IN IF user = <<>>
       THEN Error(401, CredentialsDetail)
       ELSE Response(200, "", <<PublicUser(user[1])>>, <<>>, <<>>, <<>>)

---------------------------------------------------------------------------
(* Request inputs *)

UserCreateInputs ==
    {[name |-> "Ama", email |-> e, password |-> "pw1", avatar |-> <<>>] : e \in Emails}

LoginInputs == {[email |-> e, password |-> pw] : e \in Emails, pw \in Passwords}

\* An expiry (in seconds) later than every instant of Instants.
FarExp == (9 * Day) \div MsPerSecond

GarbageToken == Token(FALSE, "", FALSE, JunkStr, 0)

BadlySignedToken == Token(TRUE, "other-secret", TRUE, HexStr(1, FALSE), FarExp)

NoSubjectToken == Token(TRUE, JWT_SECRET, FALSE, JunkStr, FarExp)

JunkSubjectToken == Token(TRUE, JWT_SECRET, TRUE, JunkStr, FarExp)

GhostToken == Token(TRUE, JWT_SECRET, TRUE, HexStr(GhostId, FALSE), FarExp)

ExpiredToken == Token(TRUE, JWT_SECRET, TRUE, HexStr(1, FALSE), 0)

\* Tokens nobody was issued, each failing identity resolution in its own way.
ForgedTokens ==
    {GarbageToken, BadlySignedToken, NoSubjectToken, JunkSubjectToken, GhostToken,
     ExpiredToken}

\* The body of a request that has none.
NoBody == [body |-> "none"]

\* FollowUpdate.towns: a list of strings, duplicates allowed.
FollowInputs == {[towns |-> <<>>], [towns |-> <<"Mampong", "Mampong">>]}

---------------------------------------------------------------------------
(* Requests in flight *)

\* pending is the bag of the requests being handled, each with its route, its
\* bearer token, its body, the step it makes next, the id of current_user once
\* get_current_user has returned, the value of the clock it last read, and the
\* document it last built or was handed by the store.
Job(op, token, arg, at) ==
    [op |-> op, token |-> token, arg |-> arg, at |-> at, user_id |-> <<>>, now |-> <<>>,
     doc |-> <<>>]

\* A request to route op is in flight and about to make the step at.
At(job, op, at) ==
    /\ BagIn(job, pending)
    /\ job.op = op
    /\ job.at = at

\* A worker is idle, so one more request can be taken.
WorkerFree == BagCardinality(pending) < Cardinality(Procs)

Start(job) == pending' = pending (+) SetToBag({job})

Finish(job) == pending' = pending (-) SetToBag({job})

\* The request goes on as next.
Step(job, next) == pending' = (pending (-) SetToBag({job})) (+) SetToBag({next})

InsertOps ==
    {"register", "create_business", "create_product", "create_attraction",
     "create_review", "create_update"}

\* The store has an identifier left for one more request that inserts.
IdsLeft ==
    LET inserting == {j \in BagToSet(pending) : j.op \in InsertOps /\ j.at # "answer"}
    IN nextId + BagCardinality([j \in inserting |-> pending[j]]) <= MaxIds

\* The step answers no request.
NoRequest == Request("none", <<>>, <<>>)

Unanswered ==
    /\ req' = NoRequest
    /\ resp' = InFlight

---------------------------------------------------------------------------
(* Initial state *)

Init ==
    /\ db = [c \in Collections |-> <<>>]
    /\ nextId = 1
    /\ clock = 0
    /\ pending = EmptyBag
    /\ held = {}
    /\ req = NoRequest
    /\ resp = InFlight

\* The client lets the token of a response go, or keeps it for the rest of the
\* run, with the time it was made at and the user it was issued for.
Keep(tok, user) ==
    {held} \cup (IF held = {} THEN {{[token |-> tok, issued |-> clock, sub |-> user.id]}}
                 ELSE {})

\* Lines 134-137 and 146-148: the token is made from the clock as it is now,
\* and the request is answered with it and the public user.
Answer(job, op) ==
    LET access_token == create_access_token(StrOfObjectId(job.doc[1]["_id"]), clock)
    IN /\ At(job, op, "answer")
       /\ req' = Request(op, <<>>, <<job.arg>>)
       /\ resp' = Response(200, "", <<PublicUser(job.doc[1])>>, <<access_token>>, <<>>, <<>>)
       /\ held' \in Keep(access_token, PublicUser(job.doc[1]))
       /\ Finish(job)
       /\ UNCHANGED <<db, nextId, clock>>

---------------------------------------------------------------------------
(* POST /auth/register *)

\* User(name, email, hashed_password, avatar).model_dump()
User(user_in, salt) ==
    [name |-> user_in.name, email |-> user_in.email,
     hashed_password |-> hash_password(user_in.password, salt),
     avatar |-> user_in.avatar, follows |-> <<>>, role |-> "user"]

\* Lines 127-133: build the record and insert it.
RegisterStore(job) ==
    /\ nextId <= MaxIds
    /\ db' = [db EXCEPT !["user"] = insert_one(@, User(job.arg, nextId), nextId)]
    /\ nextId' = nextId + 1
    /\ Unanswered
    /\ Step(job, [job EXCEPT !.at = "answer",
                             !.doc = <<Put(User(job.arg, nextId), "_id", nextId)>>])
    /\ UNCHANGED held

\* Lines 125-126: the lookup by email, and the 400 when it hits.
RegisterCheck(user_in) ==
    /\ WorkerFree
    /\ IF get_user_by_email(db["user"], user_in.email) # <<>>
       THEN /\ req' = Request("register", <<>>, <<user_in>>)
            /\ resp' = Error(400, "Email already registered")
            /\ UNCHANGED pending
       ELSE /\ IdsLeft
            /\ Unanswered
            /\ Start(Job("register", <<>>, user_in, "insert_one"))
    /\ UNCHANGED <<db, nextId, clock, held>>

\* The lookup of a register request that starts only when no other register
\* request is in flight: register requests handled one at a time.
RegisterCheckInTurn(user_in) ==
    /\ \A job \in BagToSet(pending) : job.op # "register"
    /\ RegisterCheck(user_in)

\* The insert made conditional on a second lookup.
RegisterInsertRechecked(job) ==
    /\ At(job, "register", "insert_one")
    /\ IF get_user_by_email(db["user"], job.arg.email) # <<>>
       THEN /\ req' = Request("register", <<>>, <<job.arg>>)
            /\ resp' = Error(400, "Email already registered")
            /\ Finish(job)
            /\ UNCHANGED <<db, nextId, held>>
       ELSE RegisterStore(job)
    /\ UNCHANGED clock

\* Lines 127-133 for a request whose lookup passed.
RegisterInsert(job) ==
    /\ At(job, "register", "insert_one")
    /\ RegisterStore(job)
    /\ UNCHANGED clock

\* Lines 134-137.
RegisterAnswer(job) == Answer(job, "register")

---------------------------------------------------------------------------
(* POST /auth/login *)

\* Lines 142-145: the lookup by email and the check of the password.
Login(payload) ==
    LET user == get_user_by_email(db["user"], payload.email)
    IN /\ WorkerFree
       /\ IF user = <<>> \/ ~verify_password(payload.password, user[1].hashed_password)
          THEN /\ req' = Request("login", <<>>, <<payload>>)
               /\ resp' = Error(400, "Incorrect email or password")
               /\ UNCHANGED pending
          ELSE /\ Unanswered
               /\ Start([Job("login", <<>>, payload, "answer") EXCEPT !.doc = user])
       /\ UNCHANGED <<db, nextId, clock, held>>

\* Lines 146-148.
LoginAnswer(job) == Answer(job, "login")

---------------------------------------------------------------------------
(* get_current_user: GET /auth/me and the Depends of the routes that write *)

\* A request to route op arrives and lines 106-113 run up to the store call:
\* a token that fails there ends the request, any other goes on to the lookup.
\* The request keeps the time the token was checked at.
Decode(op, token, arg) ==
    /\ WorkerFree
    /\ IF decode_subject(token, clock).status # 200
       THEN /\ req' = Request(op, <<token>>, <<[now |-> clock]>>)
            /\ resp' = decode_subject(token, clock)
            /\ UNCHANGED pending
       ELSE /\ op \in InsertOps => IdsLeft
            /\ Unanswered
            /\ Start([Job(op, <<token>>, arg, "get_current_user") EXCEPT !.now = <<clock>>])
    /\ UNCHANGED <<db, nextId, clock, held>>

\* Lines 113-119: the lookup.  No user ends the request with 401; GET /auth/me
\* (lines 151-153) answers with the user; the other routes hand it to their
\* handler.
Resolve(job) ==
    LET current_user == get_current_user(db["user"], job.token[1])
    IN /\ BagIn(job, pending)
       /\ job.at = "get_current_user"
       /\ IF current_user.status # 200 \/ job.op = "me"
          THEN /\ req' = Request(job.op, job.token, <<[now |-> job.now[1]]>>)
               /\ resp' = current_user
               /\ Finish(job)
          ELSE /\ Unanswered
               /\ Step(job, [job EXCEPT !.at = "handler", !.now = <<>>,
                                        !.user_id = IF "id" \in DOMAIN current_user.user[1]
                                                    THEN <<current_user.user[1].id>>
                                                    ELSE <<>>])
       /\ UNCHANGED <<db, nextId, clock, held>>

---------------------------------------------------------------------------
(* PATCH /auth/follow *)

update_follows_merge(users, user_id, towns, now) ==
    LET old == find_one(users, "_id", ObjectId(user_id))[1].follows
    IN update_one(users, ObjectId(user_id), "follows", old \o towns, "updated_at", now)

\* Line 166: the user collection after the $set.
update_follows(users, user_id, towns, now) ==
    update_one(users, ObjectId(user_id), "follows", towns, "updated_at", now)

\* Lines 163-166 before the store is called: the 400 for a user without id,
\* else the arguments of update_one, datetime.now() among them.
UpdateFollowsArgs(job) ==
    /\ At(job, "update_follows", "handler")
    /\ IF job.user_id = <<>>
       THEN /\ req' = Request("update_follows", job.token, <<job.arg>>)
            /\ resp' = Error(400, "Invalid user")
            /\ Finish(job)
       ELSE /\ Unanswered
            /\ Step(job, [job EXCEPT !.at = "update_one", !.now = <<clock>>])
    /\ UNCHANGED <<db, nextId, clock, held>>

\* Line 166: the store applies update_one, with the time read before.
UpdateFollowsSet(job) ==
    /\ At(job, "update_follows", "update_one")
    /\ db' = [db EXCEPT !["user"] =
                update_follows(@, job.user_id[1], job.arg.towns, job.now[1])]
    /\ Unanswered
    /\ Step(job, [job EXCEPT !.at = "find_one", !.now = <<>>])
    /\ UNCHANGED <<nextId, clock, held>>

\* Lines 167-170: read the record back and answer with it.
UpdateFollowsRead(job) ==
    /\ At(job, "update_follows", "find_one")
    /\ LET user == find_one(db["user"], "_id", ObjectId(job.user_id[1]))
       IN /\ req' = Request("update_follows", job.token, <<job.arg>>)
          /\ resp' = IF user = <<>> THEN Error(500, "Internal Server Error")
                     ELSE Response(200, "", <<PublicUser(user[1])>>, <<>>, <<>>, <<>>)
    /\ Finish(job)
    /\ UNCHANGED <<db, nextId, clock, held>>

---------------------------------------------------------------------------
(* The wall clock *)

Tick(t) ==
    /\ t > clock
    /\ clock' = t
    /\ Unanswered
    /\ UNCHANGED <<db, nextId, pending, held>>

---------------------------------------------------------------------------
(* The entity create handlers *)

CollectionOf(op) ==
    CASE op = "create_business" -> "business"
      [] op = "create_product" -> "product"
      [] op = "create_attraction" -> "attraction"
      [] op = "create_review" -> "review"
      [] op = "create_update" -> "update"

\* database.create_document before the store is called: the record stamped
\* with the time it is built at.
create_document_stamp(data, now) == Put(Put(data, "created_at", now), "updated_at", now)

\* database.create_document: the store applies insert_one, and the handler
\* answers with str(_id).
create_document(job) ==
    /\ BagIn(job, pending)
    /\ job.op \in InsertOps \ {"register"}
    /\ job.at = "insert_one"
    /\ nextId <= MaxIds
    /\ db' = [db EXCEPT ![CollectionOf(job.op)] = insert_one(@, job.doc[1], nextId)]
    /\ nextId' = nextId + 1
    /\ req' = Request(job.op, job.token, <<job.arg>>)
    /\ resp' = Response(200, "", <<>>, <<>>, <<StrOfObjectId(nextId)>>, <<>>)
    /\ Finish(job)
    /\ UNCHANGED <<clock, held>>

\* The body shared by the five handlers up to the store call, run once the
\* caller is resolved: the schema's validation (400 on failure), then the
\* record create_document builds.
create(job, op, valid, data, detail) ==
    /\ At(job, op, "handler")
    /\ IF ~valid
       THEN /\ req' = Request(op, job.token, <<job.arg>>)
            /\ resp' = Error(400, detail)
            /\ Finish(job)
       ELSE /\ Unanswered
            /\ Step(job, [job EXCEPT !.at = "insert_one",
                                     !.doc = <<create_document_stamp(data, clock)>>])
    /\ UNCHANGED <<db, nextId, clock, held>>

\* schemas.Business(**payload): owner, region and rating take their defaults.
Business(payload) ==
    [name |-> payload.name, category |-> payload.category, town |-> payload.town,
     owner |-> <<>>, region |-> "Eastern Region", rating |-> <<>>]

CreateBusiness(job) ==
    /\ job.op = "create_business"
    /\ create(job, "create_business", TRUE, Business(job.arg), "validation error")

\* Lines 234-238: a parseable business_id is rewritten as str(ObjectId(..)).
NormalizeBusinessId(b) ==
    IF b # <<>> /\ ObjectIdValid(b[1]) THEN <<StrOfObjectId(ObjectId(b[1]))>> ELSE b

\* schemas.Product: price is None or >= 0.
ProductValid(data) == data.price = <<>> \/ data.price[1] >= 0

Product(payload) ==
    [business_id |-> NormalizeBusinessId(payload.business_id), title |-> payload.title,
     price |-> payload.price, currency |-> "GHS", available |-> TRUE]

CreateProduct(job) ==
    /\ job.op = "create_product"
    /\ create(job, "create_product", ProductValid(Product(job.arg)), Product(job.arg),
              "validation error")

Attraction(payload) == [name |-> payload.name, town |-> payload.town]

CreateAttraction(job) ==
    /\ job.op = "create_attraction"
    /\ create(job, "create_attraction", TRUE, Attraction(job.arg), "validation error")

TargetTypes == {"business", "product", "attraction"}

ReviewValidNoUpper(payload) == payload.target_type \in TargetTypes /\ payload.rating >= 1

\* Line 310 and schemas.Review: rating is an int with ge=1, le=5.
ReviewValid(payload) ==
    /\ payload.target_type \in TargetTypes
    /\ payload.rating >= 1
    /\ payload.rating <= 5

Review(payload) ==
    [target_type |-> payload.target_type, target_id |-> payload.target_id,
     author_name |-> <<>>, rating |-> payload.rating, comment |-> <<>>]

CreateReview(job) ==
    /\ job.op = "create_review"
    /\ create(job, "create_review", ReviewValid(job.arg), Review(job.arg),
              IF job.arg.target_type \in TargetTypes THEN "validation error"
              ELSE "Invalid target_type")

Update(payload) ==
    [title |-> payload.title, content |-> payload.content, category |-> <<>>,
     town |-> payload.town]

CreateUpdate(job) ==
    /\ job.op = "create_update"
    /\ create(job, "create_update", TRUE, Update(job.arg), "validation error")

---------------------------------------------------------------------------
(* GET /stories *)

\* str.strip() on the segments the model draws from.
Strip(s) ==
    CASE s = " " -> ""
      [] s = " Koforidua " -> "Koforidua"
      [] s = "Mampong " -> "Mampong"
      [] OTHER -> s

\* towns.split(","): a string is its comma-free segments, "" being <<"">>.
\* Line 375: the stripped, non-blank segments.
TownsList(towns) ==
    LET stripped == [i \in 1..Len(towns) |-> Strip(towns[i])]
    IN SelectSeq(stripped, LAMBDA t : t # "")

\* `if towns:` is false for None and for the empty string.
Truthy(towns) == towns # <<>> /\ towns[1] # <<"">>

Range(seq) == {seq[i] : i \in 1..Len(seq)}

\* find(filter_dict): no filter, or town $in towns_list.
StoriesMatch(doc, towns) ==
    IF Truthy(towns) /\ TownsList(towns[1]) # <<>>
    THEN doc.town # <<>> /\ doc.town[1] \in Range(TownsList(towns[1]))
    ELSE TRUE

\* The orders 1..n can be put in.
Orders(n) == {f \in [1..n -> 1..n] : \A i, j \in 1..n : f[i] = f[j] => i = j}

\* .sort("created_at", -1): every order of docs that is descending in
\* created_at.  The store leaves the order of documents with equal
\* created_at open, so there is one result for each way of ordering them.
SortDesc(docs) ==
    {[i \in 1..Len(docs) |-> docs[f[i]]] :
        f \in {g \in Orders(Len(docs)) :
                \A i \in 1..(Len(docs) - 1) :
                    docs[g[i]].created_at >= docs[g[i + 1]].created_at}}

Abs(n) == IF n < 0 THEN 0 - n ELSE n

\* cursor.limit(limit): 0 is no limit, a negative limit caps at its magnitude.
Limit(docs, limit) ==
    IF limit = 0 THEN docs
    ELSE SubSeq(docs, 1, IF Abs(limit) < Len(docs) THEN Abs(limit) ELSE Len(docs))

\* Lines 373-379: the lists of documents the handler may answer with.
stories(updates, towns, limit) ==
    LET found == SelectSeq(updates, LAMBDA d : StoriesMatch(d, towns))
    IN {[i \in 1..Len(Limit(sorted, limit)) |-> serialize_doc(Limit(sorted, limit)[i])] :
            sorted \in SortDesc(found)}

\* One store call (find, sort, limit), then the answer.
Stories(towns, limit) ==
    /\ req' = Request("stories", <<>>, <<[towns |-> towns, limit |-> limit]>>)
    /\ \E docs \in stories(db["update"], towns, limit) :
            resp' = Response(200, "", <<>>, <<>>, <<>>, docs)
    /\ UNCHANGED <<db, nextId, clock, pending, held>>

DefaultLimit == 20

---------------------------------------------------------------------------
(* Entity inputs *)

BusinessInputs == {[name |-> "Kente Crafts", category |-> "Crafts", town |-> <<"Koforidua">>]}

ProductInputs ==
    {[title |-> "Kente stole", price |-> <<10>>, business_id |-> <<HexStr(1, TRUE)>>],
     [title |-> "Kente stole", price |-> <<0 - 1>>, business_id |-> <<>>]}

AttractionInputs == {[name |-> "Boti Falls", town |-> <<"Koforidua">>]}

ReviewInputs ==
    {[target_type |-> "business", target_id |-> "t1", rating |-> 5],
     [target_type |-> "event", target_id |-> "t1", rating |-> 6]}

UpdateInputs == {[title |-> "Market day", content |-> "Saturday", town |-> <<"Koforidua">>]}

StoriesTowns == {<<>>, << <<"Koforidua">> >>}

StoriesLimits == {DefaultLimit}

CoarseInstants == {0, 6 * Day}

---------------------------------------------------------------------------
(* Specifications *)

HeldTokens == {h.token : h \in held}

MeTokens == HeldTokens \cup ForgedTokens

\* The tokens the routes that write are called with, but for the gate's own
\* specification: the one the client holds, and one of a user that is not there.
TokenInputs == HeldTokens \cup {GhostToken}

\* Every route, as many requests in flight as there are workers, their steps
\* in any interleaving.
Next ==
    \/ \E u \in UserCreateInputs : RegisterCheck(u)
    \/ \E job \in BagToSet(pending) : RegisterInsert(job)
    \/ \E job \in BagToSet(pending) : RegisterAnswer(job)
    \/ \E l \in LoginInputs : Login(l)
    \/ \E job \in BagToSet(pending) : LoginAnswer(job)
    \/ \E t \in TokenInputs : Decode("me", t, NoBody)
    \/ \E job \in BagToSet(pending) : Resolve(job)
    \/ \E t \in TokenInputs, f \in FollowInputs : Decode("update_follows", t, f)
    \/ \E job \in BagToSet(pending) : UpdateFollowsArgs(job)
    \/ \E job \in BagToSet(pending) : UpdateFollowsSet(job)
    \/ \E job \in BagToSet(pending) : UpdateFollowsRead(job)
    \/ \E t \in TokenInputs, b \in BusinessInputs : Decode("create_business", t, b)
    \/ \E job \in BagToSet(pending) : CreateBusiness(job)
    \/ \E t \in TokenInputs, b \in ProductInputs : Decode("create_product", t, b)
    \/ \E job \in BagToSet(pending) : CreateProduct(job)
    \/ \E t \in TokenInputs, b \in AttractionInputs : Decode("create_attraction", t, b)
    \/ \E job \in BagToSet(pending) : CreateAttraction(job)
    \/ \E t \in TokenInputs, b \in ReviewInputs : Decode("create_review", t, b)
    \/ \E job \in BagToSet(pending) : CreateReview(job)
    \/ \E t \in TokenInputs, b \in UpdateInputs : Decode("create_update", t, b)
    \/ \E job \in BagToSet(pending) : CreateUpdate(job)
    \/ \E job \in BagToSet(pending) : create_document(job)
    \/ \E t \in StoriesTowns, l \in StoriesLimits : Stories(t, l)
    \/ \E t \in CoarseInstants : Tick(t)

Spec == Init /\ [][Next]_vars

\* The routes that answer with a user, over the instants a token is issued
\* and verified at.
UserNext ==
    \/ \E u \in UserCreateInputs : RegisterCheck(u)
    \/ \E job \in BagToSet(pending) : RegisterInsert(job)
    \/ \E job \in BagToSet(pending) : RegisterAnswer(job)
    \/ \E l \in LoginInputs : Login(l)
    \/ \E job \in BagToSet(pending) : LoginAnswer(job)
    \/ \E t \in TokenInputs : Decode("me", t, NoBody)
    \/ \E job \in BagToSet(pending) : Resolve(job)
    \/ \E t \in TokenInputs, f \in FollowInputs : Decode("update_follows", t, f)
    \/ \E job \in BagToSet(pending) : UpdateFollowsArgs(job)
    \/ \E job \in BagToSet(pending) : UpdateFollowsSet(job)
    \/ \E job \in BagToSet(pending) : UpdateFollowsRead(job)
    \/ \E t \in CoarseInstants : Tick(t)

UserSpec == Init /\ [][UserNext]_vars

\* The routes that write to the store, over the instants their records are
\* stamped at.
WriteNext ==
    \/ \E u \in UserCreateInputs : RegisterCheck(u)
    \/ \E job \in BagToSet(pending) : RegisterInsert(job)
    \/ \E job \in BagToSet(pending) : RegisterAnswer(job)
    \/ \E job \in BagToSet(pending) : Resolve(job)
    \/ \E t \in TokenInputs, f \in FollowInputs : Decode("update_follows", t, f)
    \/ \E job \in BagToSet(pending) : UpdateFollowsArgs(job)
    \/ \E job \in BagToSet(pending) : UpdateFollowsSet(job)
    \/ \E job \in BagToSet(pending) : UpdateFollowsRead(job)
    \/ \E t \in TokenInputs, b \in BusinessInputs : Decode("create_business", t, b)
    \/ \E job \in BagToSet(pending) : CreateBusiness(job)
    \/ \E t \in TokenInputs, b \in ProductInputs : Decode("create_product", t, b)
    \/ \E job \in BagToSet(pending) : CreateProduct(job)
    \/ \E t \in TokenInputs, b \in AttractionInputs : Decode("create_attraction", t, b)
    \/ \E job \in BagToSet(pending) : CreateAttraction(job)
    \/ \E t \in TokenInputs, b \in ReviewInputs : Decode("create_review", t, b)
    \/ \E job \in BagToSet(pending) : CreateReview(job)
    \/ \E t \in TokenInputs, b \in UpdateInputs : Decode("create_update", t, b)
    \/ \E job \in BagToSet(pending) : CreateUpdate(job)
    \/ \E job \in BagToSet(pending) : create_document(job)
    \/ \E t \in CoarseInstants : Tick(t)

WriteSpec == Init /\ [][WriteNext]_vars

\* Every route that takes a token or writes to the store, called with the
\* token the client holds, over the instants a token is issued and verified at.
SessionNext ==
    \/ \E u \in UserCreateInputs : RegisterCheck(u)
    \/ \E job \in BagToSet(pending) : RegisterInsert(job)
    \/ \E job \in BagToSet(pending) : RegisterAnswer(job)
    \/ \E l \in LoginInputs : Login(l)
    \/ \E job \in BagToSet(pending) : LoginAnswer(job)
    \/ \E t \in HeldTokens : Decode("me", t, NoBody)
    \/ \E job \in BagToSet(pending) : Resolve(job)
    \/ \E t \in HeldTokens, f \in FollowInputs : Decode("update_follows", t, f)
    \/ \E job \in BagToSet(pending) : UpdateFollowsArgs(job)
    \/ \E job \in BagToSet(pending) : UpdateFollowsSet(job)
    \/ \E job \in BagToSet(pending) : UpdateFollowsRead(job)
    \/ \E t \in HeldTokens, b \in BusinessInputs : Decode("create_business", t, b)
    \/ \E job \in BagToSet(pending) : CreateBusiness(job)
    \/ \E t \in HeldTokens, b \in ProductInputs : Decode("create_product", t, b)
    \/ \E job \in BagToSet(pending) : CreateProduct(job)
    \/ \E t \in HeldTokens, b \in AttractionInputs : Decode("create_attraction", t, b)
    \/ \E job \in BagToSet(pending) : CreateAttraction(job)
    \/ \E t \in HeldTokens, b \in ReviewInputs : Decode("create_review", t, b)
    \/ \E job \in BagToSet(pending) : CreateReview(job)
    \/ \E t \in HeldTokens, b \in UpdateInputs : Decode("create_update", t, b)
    \/ \E job \in BagToSet(pending) : CreateUpdate(job)
    \/ \E job \in BagToSet(pending) : create_document(job)
    \/ \E t \in CoarseInstants : Tick(t)

SessionSpec == Init /\ [][SessionNext]_vars

\* Register requests handled one at a time: a lookup starts only when no other
\* register request is in flight.  Logins, identity resolutions and
\* follow-list updates come between its steps as they like.
SeqNext ==
    \/ \E u \in UserCreateInputs : RegisterCheckInTurn(u)
    \/ \E job \in BagToSet(pending) : RegisterInsert(job)
    \/ \E job \in BagToSet(pending) : RegisterAnswer(job)
    \/ \E l \in LoginInputs : Login(l)
    \/ \E job \in BagToSet(pending) : LoginAnswer(job)
    \/ \E t \in MeTokens : Decode("me", t, NoBody)
    \/ \E job \in BagToSet(pending) : Resolve(job)
    \/ \E t \in TokenInputs, f \in FollowInputs : Decode("update_follows", t, f)
    \/ \E job \in BagToSet(pending) : UpdateFollowsArgs(job)
    \/ \E job \in BagToSet(pending) : UpdateFollowsSet(job)
    \/ \E job \in BagToSet(pending) : UpdateFollowsRead(job)

SeqSpec == Init /\ [][SeqNext]_vars

\* The routes that write, called with every kind of token that does not
\* resolve and with the one the client holds.
GateNext ==
    \/ \E u \in UserCreateInputs : RegisterCheck(u)
    \/ \E job \in BagToSet(pending) : RegisterInsert(job)
    \/ \E job \in BagToSet(pending) : RegisterAnswer(job)
    \/ \E job \in BagToSet(pending) : Resolve(job)
    \/ \E t \in MeTokens, f \in FollowInputs : Decode("update_follows", t, f)
    \/ \E job \in BagToSet(pending) : UpdateFollowsArgs(job)
    \/ \E job \in BagToSet(pending) : UpdateFollowsSet(job)
    \/ \E job \in BagToSet(pending) : UpdateFollowsRead(job)
    \/ \E t \in MeTokens, b \in BusinessInputs : Decode("create_business", t, b)
    \/ \E job \in BagToSet(pending) : CreateBusiness(job)
    \/ \E t \in MeTokens, b \in ProductInputs : Decode("create_product", t, b)
    \/ \E job \in BagToSet(pending) : CreateProduct(job)
    \/ \E t \in MeTokens, b \in AttractionInputs : Decode("create_attraction", t, b)
    \/ \E job \in BagToSet(pending) : CreateAttraction(job)
    \/ \E t \in MeTokens, b \in ReviewInputs : Decode("create_review", t, b)
    \/ \E job \in BagToSet(pending) : CreateReview(job)
    \/ \E t \in MeTokens, b \in UpdateInputs : Decode("create_update", t, b)
    \/ \E job \in BagToSet(pending) : CreateUpdate(job)
    \/ \E job \in BagToSet(pending) : create_document(job)

GateSpec == Init /\ [][GateNext]_vars

\* Register requests side by side, the lookup and the insert of each being
\* separate store calls, in any interleaving.
RaceNext ==
    \/ \E u \in UserCreateInputs : RegisterCheck(u)
    \/ \E job \in BagToSet(pending) : RegisterInsert(job)
    \/ \E job \in BagToSet(pending) : RegisterAnswer(job)
    \/ \E l \in LoginInputs : Login(l)
    \/ \E job \in BagToSet(pending) : LoginAnswer(job)
    \/ \E t \in MeTokens : Decode("me", t, NoBody)
    \/ \E job \in BagToSet(pending) : Resolve(job)

RaceSpec == Init /\ [][RaceNext]_vars

\* Registration, login and identity resolution with the clock read at
\* sub-second instants around the expiry of a token.
TokenNext ==
    \/ \E u \in UserCreateInputs : RegisterCheck(u)
    \/ \E job \in BagToSet(pending) : RegisterInsert(job)
    \/ \E job \in BagToSet(pending) : RegisterAnswer(job)
    \/ \E l \in LoginInputs : Login(l)
    \/ \E job \in BagToSet(pending) : LoginAnswer(job)
    \/ \E t \in MeTokens : Decode("me", t, NoBody)
    \/ \E job \in BagToSet(pending) : Resolve(job)
    \/ \E t \in Instants : Tick(t)

TokenSpec == Init /\ [][TokenNext]_vars

RatingInputs == 0..6

AllReviewInputs ==
    {[target_type |-> tt, target_id |-> "t1", rating |-> r] :
        tt \in TargetTypes \cup {"event"}, r \in RatingInputs}

\* The review route over every target type and rating.
ReviewNext ==
    \/ \E u \in UserCreateInputs : RegisterCheck(u)
    \/ \E job \in BagToSet(pending) : RegisterInsert(job)
    \/ \E job \in BagToSet(pending) : RegisterAnswer(job)
    \/ \E l \in LoginInputs : Login(l)
    \/ \E job \in BagToSet(pending) : LoginAnswer(job)
    \/ \E job \in BagToSet(pending) : Resolve(job)
    \/ \E t \in TokenInputs, b \in AllReviewInputs : Decode("create_review", t, b)
    \/ \E job \in BagToSet(pending) : CreateReview(job)
    \/ \E job \in BagToSet(pending) : create_document(job)

ReviewSpec == Init /\ [][ReviewNext]_vars

AllStoriesTowns ==
    {<<>>, << <<"">> >>, << <<" ">> >>, << <<"", " ">> >>, << <<"Koforidua", "Mampong">> >>,
     << <<" Koforidua ", "">> >>, << <<"Mampong ">> >>}

AllStoriesLimits == {0, 1, 2, DefaultLimit}

AllUpdateInputs ==
    {[title |-> "Market day", content |-> "Saturday", town |-> t] :
        t \in {<<>>, <<"Koforidua">>, <<"Mampong">>, <<"Nsawam">>}}

\* The stories feed over updates of several towns and every shape of towns.
StoriesNext ==
    \/ \E u \in UserCreateInputs : RegisterCheck(u)
    \/ \E job \in BagToSet(pending) : RegisterInsert(job)
    \/ \E job \in BagToSet(pending) : RegisterAnswer(job)
    \/ \E job \in BagToSet(pending) : Resolve(job)
    \/ \E t \in TokenInputs, b \in AllUpdateInputs : Decode("create_update", t, b)
    \/ \E job \in BagToSet(pending) : CreateUpdate(job)
    \/ \E job \in BagToSet(pending) : create_document(job)
    \/ \E t \in AllStoriesTowns, l \in AllStoriesLimits : Stories(t, l)
    \/ \E t \in CoarseInstants : Tick(t)

StoriesSpec == Init /\ [][StoriesNext]_vars

---------------------------------------------------------------------------
(* Vocabulary of the claims *)

Users == db["user"]

EmailRegistered(users, email) == \E i \in 1..Len(users) : users[i].email = email

\* The token decodes, names a subject, and that subject is the id of a record.
TokenResolves(users, token, now) ==
    /\ token.wellformed
    /\ token.key = JWT_SECRET
    /\ now < token.exp * MsPerSecond
    /\ token.hasSub
    /\ token.sub.hex
    /\ \E i \in 1..Len(users) : users[i]["_id"] = token.sub.n

GatedOps ==
    {"update_follows", "create_business", "create_product", "create_attraction",
     "create_review", "create_update"}

UserOps == {"register", "login", "me", "update_follows"}

SevenDays == 7 * Day

\* t0 + 7 days with the fraction of a second dropped.
TruncatedExpiry(t0) == ((t0 + SevenDays) \div MsPerSecond) * MsPerSecond

\* A request in flight makes the step it was about to make.
Leaves(job) == CopiesIn(job, pending') < CopiesIn(job, pending)

\* A request comes to be in flight, or comes to its next step.
Enters(job) == CopiesIn(job, pending') > CopiesIn(job, pending)

---------------------------------------------------------------------------
(* C1 *)

\* C1: with register requests handled one at a time (none starts its lookup
\* while another is in flight), a register request for an email that a user
\* record already carries never gets past its lookup: it ends with 400 and
\* leaves the store as it was, and no two user records ever share an email.
C1_SequentialRegisterUnique ==
    /\ [](\A i, j \in 1..Len(Users) : Users[i].email = Users[j].email => i = j)
    /\ [][/\ (req'.op = "register" /\ pending' = pending)
               => /\ resp'.status = 400
                  /\ db' = db
                  /\ EmailRegistered(Users, req'.arg[1].email)
          /\ \A job \in BagToSet(pending') :
               (job.op = "register" /\ job.at = "insert_one" /\ Enters(job))
                   => (~EmailRegistered(Users, job.arg.email) /\ db' = db)
          /\ \A job \in BagToSet(pending) :
               (job.op = "register" /\ job.at = "insert_one" /\ Leaves(job))
                   => ~EmailRegistered(Users, job.arg.email)]_vars

C1_Witness ==
    /\ req.op = "register"
    /\ resp.status = 400
    /\ resp.detail = "Email already registered"
    /\ EmailRegistered(Users, req.arg[1].email)

---------------------------------------------------------------------------
(* C2 *)

\* C2: every request that identity resolution fails (its token, checked at the
\* time the request read the clock, does not resolve) ends with status 401 and
\* the detail "Could not validate credentials", whatever is wrong with its token.
C2_UniformRejection ==
    (req.op = "me" /\ ~TokenResolves(Users, req.token[1], req.arg[1].now))
        => (resp.status = 401 /\ resp.detail = CredentialsDetail)

---------------------------------------------------------------------------
(* C3 *)

\* C3: a user returned by register, login, /auth/me or PATCH /auth/follow has
\* no hashed_password field, and the stored record of that user still has it.
C3_NoHashInResponse ==
    /\ (req.op \in UserOps /\ resp.status = 200) => Len(resp.user) = 1
    /\ \A i \in 1..Len(resp.user) :
          /\ "hashed_password" \notin DOMAIN resp.user[i]
          /\ \E j \in 1..Len(Users) :
                /\ Users[j]["_id"] = resp.user[i].id.n
                /\ "hashed_password" \in DOMAIN Users[j]
    /\ \A j \in 1..Len(Users) : "hashed_password" \in DOMAIN Users[j]

C3_Witness ==
    /\ req.op = "update_follows"
    /\ resp.status = 200
    /\ Len(resp.user) = 1
    /\ resp.user[1].follows # <<>>

---------------------------------------------------------------------------
(* C4 *)

\* C4 as stated: a token issued at t0 and verified at now resolves to its
\* subject when now is before t0 + 7 days and is rejected when now is t0 + 7
\* days or later.
C4_ExpiryAtSevenDays ==
    \A h \in held :
        (req.op = "me" /\ req.token = <<h.token>>)
            => IF req.arg[1].now < h.issued + SevenDays
               THEN resp.status = 200 /\ resp.user[1].id = h.sub
               ELSE resp.status = 401

\* C4 amended: a token issued at t0 expires at t0 + 7 days cut down to a whole
\* second; verified at now, it resolves to its subject when now is before that
\* and is rejected when now is that or later.
C4_ExpiryAtTruncatedSevenDays ==
    \A h \in held :
        (req.op = "me" /\ req.token = <<h.token>>)
            => IF req.arg[1].now < TruncatedExpiry(h.issued)
               THEN resp.status = 200 /\ resp.user[1].id = h.sub
               ELSE resp.status = 401 /\ resp.detail = CredentialsDetail

C4_Witness ==
    \E h \in held :
        /\ req.op = "me"
        /\ req.token = <<h.token>>
        /\ h.issued = 500
        /\ req.arg[1].now = 6 * Day
        /\ resp.status = 200
        /\ resp.user[1].id = h.sub

---------------------------------------------------------------------------
(* C5 *)

\* C5: a follow-list update or entity create whose token does not resolve to
\* an existing user ends with 401 and changes no collection.
C5_GatedByIdentity ==
    [][(req'.op \in GatedOps /\ ~TokenResolves(Users, req'.token[1], clock))
        => (resp'.status = 401 /\ db' = db)]_vars

---------------------------------------------------------------------------
(* C6 *)

\* C6: the lookup of a register request passes whenever no record carries the
\* email, whatever other requests are in flight, the insert that follows a
\* passed lookup always adds the record, whatever the collection holds by
\* then, and the request is then answered 200: lookup and insert are not atomic.
C6_LookupThenInsertNotAtomic ==
    [][/\ \A job \in BagToSet(pending') :
            (job.op = "register" /\ job.at = "insert_one" /\ Enters(job))
                => ~EmailRegistered(Users, job.arg.email)
       /\ \A job \in BagToSet(pending) :
            (job.op = "register" /\ job.at = "insert_one" /\ Leaves(job))
                => /\ Len(db'["user"]) = Len(Users) + 1
                   /\ db'["user"][Len(Users) + 1].email = job.arg.email
                   /\ SubSeq(db'["user"], 1, Len(Users)) = Users
                   /\ \E next \in BagToSet(pending') :
                        /\ Enters(next)
                        /\ next.op = "register"
                        /\ next.at = "answer"
                        /\ next.arg = job.arg
       /\ \A job \in BagToSet(pending) :
            (job.op = "register" /\ job.at = "answer" /\ Leaves(job))
                => /\ req' = Request("register", <<>>, <<job.arg>>)
                   /\ resp'.status = 200
                   /\ db' = db]_vars

\* Two records carry one email, and both requests were answered.
C6_Witness ==
    /\ pending = EmptyBag
    /\ req.op = "register"
    /\ resp.status = 200
    /\ \E i, j \in 1..Len(Users) : i # j /\ Users[i].email = Users[j].email

---------------------------------------------------------------------------
(* C7 *)

\* The step in which the store applies the update_one of follow-list update
\* job.
FollowSet(job) ==
    /\ job.op = "update_follows"
    /\ job.at = "update_one"
    /\ Leaves(job)

\* C7: the update_one of a PATCH /auth/follow by a resolved caller sets that
\* user's follows to exactly the towns supplied and updated_at to the time the
\* handler read, changes no other field of that record, no other user record
\* and no other collection; no other step of any operation changes an
\* existing user record.
C7_FollowReplacesOnlyFollows ==
    [][/\ \A job \in BagToSet(pending) :
            FollowSet(job) =>
                LET uid == ObjectId(job.user_id[1])
                    now == db'["user"]
                IN /\ job.user_id[1] = job.token[1].sub
                   /\ Len(now) = Len(Users)
                   /\ \E i \in 1..Len(Users) : Users[i]["_id"] = uid
                   /\ \A i \in 1..Len(Users) :
                        IF Users[i]["_id"] = uid
                        THEN /\ now[i].follows = job.arg.towns
                             /\ now[i].updated_at = job.now[1]
                             /\ DOMAIN now[i] = DOMAIN Users[i] \cup {"updated_at"}
                             /\ \A f \in DOMAIN Users[i] \ {"follows", "updated_at"} :
                                    now[i][f] = Users[i][f]
                        ELSE now[i] = Users[i]
                   /\ \A c \in Collections \ {"user"} : db'[c] = db[c]
       /\ (\A job \in BagToSet(pending) : ~FollowSet(job))
            => /\ Len(db'["user"]) >= Len(Users)
               /\ SubSeq(db'["user"], 1, Len(Users)) = Users]_vars

C7_Witness ==
    /\ req.op = "update_follows"
    /\ resp.status = 200
    /\ req.arg[1].towns = <<"Mampong", "Mampong">>
    /\ Len(Users) = 2
    /\ \E i \in 1..Len(Users) :
          /\ Users[i]["_id"] = req.token[1].sub.n
          /\ Users[i].follows = <<"Mampong", "Mampong">>
          /\ "updated_at" \in DOMAIN Users[i]

---------------------------------------------------------------------------
(* C8 *)

\* C8: a review posted by an authenticated caller goes on to the store exactly
\* when its target_type is business, product or attraction and its rating is
\* between 1 and 5; every other review ends with 400 and changes no
\* collection.  A review that goes on is stored: one document appended to the
\* review collection, its id returned.
C8_ReviewAcceptedIffValid ==
    [][/\ \A job \in BagToSet(pending) :
            (job.op = "create_review" /\ job.at = "handler" /\ Leaves(job))
            => LET p == job.arg
               IN /\ db' = db
                  /\ IF p.target_type \in {"business", "product", "attraction"}
                        /\ p.rating \in 1..5
                     THEN \E next \in BagToSet(pending') :
                            /\ Enters(next)
                            /\ next.op = "create_review"
                            /\ next.at = "insert_one"
                            /\ next.arg = p
                     ELSE /\ req' = Request("create_review", job.token, <<p>>)
                          /\ resp'.status = 400
                          /\ pending' = pending (-) SetToBag({job})
       /\ \A job \in BagToSet(pending) :
            (job.op = "create_review" /\ job.at = "insert_one" /\ Leaves(job))
            => LET p == job.arg
                   before == db["review"]
                   after == db'["review"]
               IN /\ p.target_type \in {"business", "product", "attraction"}
                  /\ p.rating \in 1..5
                  /\ req' = Request("create_review", job.token, <<p>>)
                  /\ resp'.status = 200
                  /\ Len(after) = Len(before) + 1
                  /\ SubSeq(after, 1, Len(before)) = before
                  /\ after[Len(after)].target_type = p.target_type
                  /\ after[Len(after)].target_id = p.target_id
                  /\ after[Len(after)].rating = p.rating
                  /\ resp'.ids = <<StrOfObjectId(after[Len(after)]["_id"])>>
                  /\ \A c \in Collections \ {"review"} : db'[c] = db[c]]_vars

C8_Witness ==
    /\ req.op = "create_review"
    /\ resp.status = 200
    /\ req.arg[1].target_type = "business"
    /\ req.arg[1].rating = 5
    /\ Len(db["review"]) = 1
    /\ resp.ids = <<StrOfObjectId(db["review"][1]["_id"])>>

---------------------------------------------------------------------------
(* C9 *)

\* The non-blank, trimmed entries of a towns string (none for an absent one).
WantedTowns(towns) ==
    IF towns = <<>> THEN {}
    ELSE {Strip(towns[1][i]) : i \in 1..Len(towns[1])} \ {""}

MatchingUpdates(towns) ==
    {i \in 1..Len(db["update"]) :
        \/ WantedTowns(towns) = {}
        \/ /\ db["update"][i].town # <<>>
           /\ db["update"][i].town[1] \in WantedTowns(towns)}

\* GET /stories answers with at most limit updates, each of a wanted town (of
\* any town when no town is wanted), newest first, and none newer is left out.
StoriesClaim(towns, limit, docs) ==
    LET matching == MatchingUpdates(towns)
        returned == {i \in matching :
                        \E k \in 1..Len(docs) :
                            docs[k].id = StrOfObjectId(db["update"][i]["_id"])}
    IN /\ Len(docs) <= limit
       /\ Len(docs) = Cardinality(returned)
       /\ \A k \in 1..Len(docs) :
            \E i \in matching : docs[k].id = StrOfObjectId(db["update"][i]["_id"])
       /\ \A k \in 1..(Len(docs) - 1) : docs[k].created_at >= docs[k + 1].created_at
       /\ Len(docs) = (IF limit < Cardinality(matching) THEN limit
                       ELSE Cardinality(matching))
       /\ \A i \in returned, j \in matching \ returned :
            db["update"][i].created_at >= db["update"][j].created_at

\* C9: GET /stories returns at most limit updates, all of a town among the
\* trimmed non-blank entries of towns (unfiltered when there is none), in
\* descending created_at order, and they are the most recently created ones.
C9_StoriesFeed ==
    (req.op = "stories") => StoriesClaim(req.arg[1].towns, req.arg[1].limit, resp.docs)

---------------------------------------------------------------------------
(* C10 *)

\* C10: a token returned by register or login for a user, verified before its
\* expiry and after any other operations (registrations, logins, follow
\* updates, entity creations), resolves to the record of that same user; and
\* no operation removes a user record.
C10_TokenStable ==
    /\ [](\A h \in held :
            (req.op = "me" /\ req.token = <<h.token>>
                /\ req.arg[1].now < h.token.exp * MsPerSecond)
                => (resp.status = 200 /\ resp.user[1].id = h.sub
                    /\ h.token.sub = h.sub))
    /\ [][\A i \in 1..Len(Users) :
            /\ i <= Len(db'["user"])
            /\ db'["user"][i]["_id"] = Users[i]["_id"]]_vars

\* A token issued at 0 resolves six days later to its user, whose follow list
\* was updated and who created an entity in between.
C10_Witness ==
    \E h \in held :
        /\ req.op = "me"
        /\ req.token = <<h.token>>
        /\ resp.status = 200
        /\ resp.user[1].id = h.sub
        /\ h.issued = 0
        /\ req.arg[1].now = 6 * Day
        /\ "updated_at" \in DOMAIN resp.user[1]
        /\ \E c \in Collections \ {"user"} : db[c] # <<>>

====
